---- MODULE Spec2Model ----
(***************************************************************************)
(* Model of the maze generator/solver class Maze, in its two variants:     *)
(*   "dense"  = src/code/maze.py       (numpy adjacency matrix)            *)
(*   "sparse" = src/maze_code/maze.py  (scipy csr_matrix)                  *)
(* A grid is given by its shape (height, width) and the set of node ids    *)
(* r*width+c of its walled cells.  A matrix is the set of index pairs      *)
(* <<row, column>> whose entry is non-zero.                                *)
(***************************************************************************)
EXTENDS Integers, Sequences, FiniteSets

VARIABLES variant, height, width, maze0, maze, incident_matrix,
          iter_num, iter_none, non_solvable, tried, path, pc,
          mode, start_node, end_node, result, cor, annotated

\* state of generate_maze (iter_none: the call passed no iter_num)
carveVars == <<iter_num, iter_none, non_solvable, tried, path>>
\* arguments and results of generate_temple, find_shortest_path,
\* shortest_check and add_path_to_maze
solveVars == <<mode, start_node, end_node, result, cor, annotated>>

vars == <<variant, height, width, maze0, maze, incident_matrix,
          iter_num, iter_none, non_solvable, tried, path, pc,
          mode, start_node, end_node, result, cor, annotated>>

\* Bounds of the model: side length and cell count of the input grids,
\* largest failure bound passed to generate_maze.
MaxSide == 3
MaxCells == 9
MaxIter == 2
\* largest size passed to generate_temple
MaxSize == 12
\* largest template size whose graph is built and searched
MaxSolveSize == 8
\* largest template size carved by solve_maze_generate
MaxPipeSize == 3

Variants == {"dense", "sparse"}

Nodes(h, w) == 0 .. (h * w - 1)

\* Ground truth used by the properties: 4-adjacency of two node ids.
Adjacent4(h, w, u, v) ==
    LET ru == u \div w  cu == u % w
        rv == v \div w  cv == v % w
    IN  \/ ru = rv /\ (cu = cv + 1 \/ cv = cu + 1)
        \/ cu = cv /\ (ru = rv + 1 \/ rv = ru + 1)

\* Ground truth: the set of open cells reachable from cell s through open
\* 4-adjacent cells (empty when s itself is a wall).
RECURSIVE GridClosure(_, _, _, _)
GridClosure(h, w, walls, seen) ==
    LET more == {v \in Nodes(h, w) \ (walls \cup seen) :
                    \E u \in seen : Adjacent4(h, w, u, v)}
    IN  IF more = {} THEN seen ELSE GridClosure(h, w, walls, seen \cup more)

GridReachable(h, w, walls, s, e) ==
    /\ s \notin walls
    /\ e \in GridClosure(h, w, walls, {s})

\* ---- incident ----------------------------------------------------------
\* faulty variant of IncidentCell: the mirrored entry is not set
IncidentCellNoBack(h, w, walls, i, j) ==
    LET incident_row == i * w + j
    IN  IF incident_row \in walls THEN {}
        ELSE (IF i # h - 1 /\ ((i + 1) * w + j) \notin walls
              THEN {<<incident_row, (i + 1) * w + j>>}
              ELSE {})
             \cup
             (IF j # w - 1 /\ (i * w + j + 1) \notin walls
              THEN {<<incident_row, i * w + j + 1>>}
              ELSE {})

\* faulty variant of IncidentCell: the neighbour to the right is not joined
IncidentCellDownOnly(h, w, walls, i, j) ==
    LET incident_row == i * w + j
    IN  IF incident_row \in walls THEN {}
        ELSE IF i # h - 1 /\ ((i + 1) * w + j) \notin walls
             THEN {<<incident_row, (i + 1) * w + j>>,
                   <<(i + 1) * w + j, incident_row>>}
             ELSE {}

\* One pass of the inner loop body of incident for cell (i, j).
IncidentCell(h, w, walls, i, j) ==
    LET incident_row == i * w + j
    IN  IF incident_row \in walls THEN {}
        ELSE (IF i # h - 1 /\ ((i + 1) * w + j) \notin walls
              THEN {<<incident_row, (i + 1) * w + j>>,
                    <<(i + 1) * w + j, incident_row>>}
              ELSE {})
             \cup
             (IF j # w - 1 /\ (i * w + j + 1) \notin walls
              THEN {<<incident_row, i * w + j + 1>>,
                    <<i * w + j + 1, incident_row>>}
              ELSE {})

Incident(h, w, walls) ==
    UNION {IncidentCell(h, w, walls, i, j) : i \in 0 .. (h - 1), j \in 0 .. (w - 1)}

\* ---- breadth-first search shared by find_shortest_path and the dense
\* shortest_check: queue and list_of_paths advance together, so the queue
\* is the sequence of last elements of list_of_paths.  cols is the set of
\* column indices the for-loop scans, in increasing order.
\* faulty variant of PathsTo: the neighbours are taken in decreasing order
RECURSIVE PathsToDescending(_, _)
PathsToDescending(S, p) ==
    IF S = {} THEN <<>>
    ELSE LET i == CHOOSE x \in S : \A y \in S : x >= y
         IN  <<Append(p, i)>> \o PathsToDescending(S \ {i}, p)

RECURSIVE PathsTo(_, _)
PathsTo(S, p) ==
    \* path + [i] for the nodes i of S in increasing order
    IF S = {} THEN <<>>
    ELSE LET i == CHOOSE x \in S : \A y \in S : x <= y
         IN  <<Append(p, i)>> \o PathsTo(S \ {i}, p)

\* the for-loop over the neighbours of current: the nodes it marks visited
\* (none of them is met twice in one scan) and the paths it appends
Extend(M, cols, current, visited, p) ==
    LET found == {i \in cols : i \notin visited /\ <<current, i>> \in M}
    IN  <<visited \cup found, PathsTo(found, p)>>

\* faulty variants of the loop: the newest path is popped instead of the
\* oldest; the start node is never compared with end_node
RECURSIVE BfsLoopLifo(_, _, _, _, _)
BfsLoopLifo(M, cols, end_node_, visited, list_of_paths) ==
    IF list_of_paths = <<>> THEN <<>>
    ELSE LET p == list_of_paths[Len(list_of_paths)]
             current == p[Len(p)]
         IN  IF current = end_node_ THEN p
             ELSE LET ext == Extend(M, cols, current, visited, p)
                  IN  BfsLoopLifo(M, cols, end_node_, ext[1],
                                  SubSeq(list_of_paths, 1, Len(list_of_paths) - 1) \o ext[2])

RECURSIVE BfsLoopSkipStart(_, _, _, _, _)
BfsLoopSkipStart(M, cols, end_node_, visited, list_of_paths) ==
    IF list_of_paths = <<>> THEN <<>>
    ELSE LET p == Head(list_of_paths)
             current == p[Len(p)]
         IN  IF current = end_node_ /\ Len(p) > 1 THEN p
             ELSE LET ext == Extend(M, cols, current, visited, p)
                  IN  BfsLoopSkipStart(M, cols, end_node_, ext[1],
                                       Tail(list_of_paths) \o ext[2])

RECURSIVE BfsLoop(_, _, _, _, _)
BfsLoop(M, cols, end_node_, visited, list_of_paths) ==
    IF list_of_paths = <<>> THEN <<>>
    ELSE LET p == Head(list_of_paths)
             current == p[Len(p)]
         IN  IF current = end_node_ THEN p
             ELSE LET ext == Extend(M, cols, current, visited, p)
                  IN  BfsLoop(M, cols, end_node_, ext[1],
                              Tail(list_of_paths) \o ext[2])

\* find_shortest_path: every column index 0..size-1 is scanned (dense); the
\* stored column indices of the row, which csr keeps ascending (sparse) --
\* the membership test in Extend selects them.
FindShortestPath(M, size, start_node_, end_node_) ==
    BfsLoop(M, 0 .. (size - 1), end_node_, {start_node_}, <<<<start_node_>>>>)

\* ---- shortest_check ----------------------------------------------------
\* dense: BFS restricted to the rows that have a non-zero entry; returns the
\* path found (<<>> for (False, [])).
NonZero(M, size) == {i \in 0 .. (size - 1) : \E j \in 0 .. (size - 1) : <<i, j>> \in M}

ShortestCheckDenseAt(M, size, start_node_, end_node_) ==
    BfsLoop(M, NonZero(M, size), end_node_, {start_node_}, <<<<start_node_>>>>)

\* with the default nodes, as generate_maze calls it
ShortestCheckDense(M, size) == ShortestCheckDenseAt(M, size, 0, size - 1)

\* sparse: possible := incident_matrix.dot(possible), size-1 times.
Dot(M, size, possible) ==
    {u \in 0 .. (size - 1) : \E v \in possible : <<u, v>> \in M}

RECURSIVE DotLoop(_, _, _, _, _)
DotLoop(M, size, possible, end_node_, k) ==
    IF k = 0 THEN FALSE
    ELSE LET p2 == Dot(M, size, possible)
         IN  IF end_node_ \in p2 THEN TRUE
             ELSE DotLoop(M, size, p2, end_node_, k - 1)

ShortestCheckSparseAt(M, size, start_node_, end_node_) ==
    DotLoop(M, size, {start_node_}, end_node_, size - 1)

\* with the default nodes, as generate_maze calls it
ShortestCheckSparse(M, size) == ShortestCheckSparseAt(M, size, 0, size - 1)

\* ---- generate_maze -----------------------------------------------------
\* the population np.random.choice draws the candidate order from
Numbers(v, w) ==
    IF v = "dense" THEN 1 .. (w * w - 1) ELSE 1 .. (w * w - 2)

\* np.random.choice(range(1, width**2 - 1), width**2 - 2, replace=False)
\* raises ValueError when the requested size is negative (width = 1).
ChoiceRaises(v, w) == v = "sparse" /\ w * w - 2 < 0

\* the structure (indptr/indices) of the csr matrix: fixed by incident
Stored == Incident(height, width, maze0)

\* disabling the candidate num in the graph
DisableDense(M, num) == {e \in M : e[1] # num /\ e[2] # num}
DisableSparse(M, num) == {e \in M : ~(e \in Stored /\ e[2] = num)}

\* faulty variant of RestoreDense: only the row is written back
RestoreDenseRowOnly(M, copy, num) ==
    {e \in M : e[1] # num} \cup {<<num, c>> : c \in copy}

\* restoring after a failed shortest_check
RestoreDense(M, copy, num) ==
    LET rowSet == {e \in M : e[1] # num} \cup {<<num, c>> : c \in copy}
    IN  {e \in rowSet : e[2] # num} \cup {<<c, num>> : c \in copy}

RestoreSparse(M, num) == M \cup {e \in Stored : e[2] = num}

LoopCond ==
    /\ non_solvable < iter_num
    /\ Cardinality(tried) < Cardinality(Numbers(variant, width))

Shapes == {hw \in (1 .. MaxSide) \X (1 .. MaxSide) : hw[1] * hw[2] <= MaxCells}

Init ==
    /\ variant \in Variants
    /\ \E hw \in Shapes :
          /\ height = hw[1]
          /\ width = hw[2]
          /\ maze0 \in SUBSET Nodes(hw[1], hw[2])
    /\ maze = maze0
    /\ incident_matrix = {}
    /\ iter_num = 0
    /\ iter_none = FALSE
    /\ non_solvable = 0
    /\ tried = {}
    /\ path = <<>>
    /\ mode = "none"
    /\ start_node = 0
    /\ end_node = 0
    /\ result = <<>>
    /\ cor = FALSE
    /\ annotated = <<>>
    /\ pc = "call"

\* the value of iter_num when the caller passes none: the parameter default
\* of the dense variant, maze.shape[0] in the sparse variant
DefaultIterDense == 10
DefaultIter(v, h) == IF v = "dense" THEN DefaultIterDense ELSE h

\* generate_maze up to the loop: build the graph, the first check (dense),
\* draw the candidate order; none: the caller passed no iter_num
GenerateMazeEnter(n, none) ==
    /\ pc = "call"
    /\ iter_none' = none
    /\ iter_num' = IF none THEN DefaultIter(variant, height) ELSE n
    /\ incident_matrix' = Incident(height, width, maze)
    /\ non_solvable' = 0
    /\ tried' = {}
    /\ path' = IF variant = "dense"
               THEN ShortestCheckDense(Incident(height, width, maze), height * width)
               ELSE <<>>
    /\ pc' = IF ChoiceRaises(variant, width) THEN "error" ELSE "loop"
    /\ UNCHANGED <<variant, height, width, maze0, maze>>
    /\ UNCHANGED solveVars

\* maze[row, column] = 1 with row out of range: IndexError
IterIndexError(num) ==
    /\ pc = "loop"
    /\ LoopCond
    /\ num \in Numbers(variant, width) \ tried
    /\ num \div width >= height
    /\ pc' = "error"
    /\ UNCHANGED <<variant, height, width, maze0, maze, incident_matrix,
                   iter_num, iter_none, non_solvable, tried, path>>
    /\ UNCHANGED solveVars

\* faulty variant of IterDense: the remembered path is not replaced by the
\* path the check found
IterDenseKeepPath(num) ==
    /\ pc = "loop"
    /\ variant = "dense"
    /\ LoopCond
    /\ num \in Numbers(variant, width) \ tried
    /\ num \div width < height
    /\ LET copy == {c \in Nodes(height, width) : <<num, c>> \in incident_matrix}
           disabled == DisableDense(incident_matrix, num)
           path_new == ShortestCheckDense(disabled, height * width)
           inPath == \E k \in 1 .. Len(path) : path[k] = num
       IN  IF inPath /\ path_new = <<>>
           THEN /\ non_solvable' = non_solvable + 1
                /\ incident_matrix' = RestoreDense(disabled, copy, num)
                /\ maze' = maze \ {num}
           ELSE /\ non_solvable' = non_solvable
                /\ incident_matrix' = disabled
                /\ maze' = maze \cup {num}
    /\ path' = path
    /\ tried' = tried \cup {num}
    /\ UNCHANGED <<variant, height, width, maze0, iter_num, iter_none, pc>>
    /\ UNCHANGED solveVars

\* one iteration of the while loop of the dense variant
IterDense(num) ==
    /\ pc = "loop"
    /\ variant = "dense"
    /\ LoopCond
    /\ num \in Numbers(variant, width) \ tried
    /\ num \div width < height
    /\ LET copy == {c \in Nodes(height, width) : <<num, c>> \in incident_matrix}
           disabled == DisableDense(incident_matrix, num)
           path_new == ShortestCheckDense(disabled, height * width)
           inPath == \E k \in 1 .. Len(path) : path[k] = num
       IN  IF inPath
           THEN IF path_new = <<>>
                THEN /\ non_solvable' = non_solvable + 1
                     /\ incident_matrix' = RestoreDense(disabled, copy, num)
                     /\ maze' = maze \ {num}
                     /\ path' = path
                ELSE /\ non_solvable' = non_solvable
                     /\ incident_matrix' = disabled
                     /\ maze' = maze \cup {num}
                     /\ path' = path_new
           ELSE /\ non_solvable' = non_solvable
                /\ incident_matrix' = disabled
                /\ maze' = maze \cup {num}
                /\ path' = path
    /\ tried' = tried \cup {num}
    /\ UNCHANGED <<variant, height, width, maze0, iter_num, iter_none, pc>>
    /\ UNCHANGED solveVars

\* one iteration of the while loop of the sparse variant
IterSparse(num) ==
    /\ pc = "loop"
    /\ variant = "sparse"
    /\ LoopCond
    /\ num \in Numbers(variant, width) \ tried
    /\ num \div width < height
    /\ LET disabled == DisableSparse(incident_matrix, num)
       IN  IF ~ShortestCheckSparse(disabled, height * width)
           THEN /\ non_solvable' = non_solvable + 1
                /\ incident_matrix' = RestoreSparse(disabled, num)
                /\ maze' = maze \ {num}
           ELSE /\ non_solvable' = non_solvable
                /\ incident_matrix' = disabled
                /\ maze' = maze \cup {num}
    /\ tried' = tried \cup {num}
    /\ UNCHANGED <<variant, height, width, maze0, iter_num, iter_none, path, pc>>
    /\ UNCHANGED solveVars

\* the loop condition fails: return maze
GenerateMazeReturn ==
    /\ pc = "loop"
    /\ ~LoopCond
    /\ pc' = "done"
    /\ UNCHANGED <<variant, height, width, maze0, maze, incident_matrix,
                   iter_num, iter_none, non_solvable, tried, path>>
    /\ UNCHANGED solveVars

Next ==
    \/ \E n \in 0 .. MaxIter : GenerateMazeEnter(n, FALSE)
    \/ GenerateMazeEnter(0, TRUE)
    \/ \E num \in 1 .. (MaxSide * MaxSide) : IterIndexError(num)
    \/ \E num \in 1 .. (MaxSide * MaxSide) : IterDense(num)
    \/ \E num \in 1 .. (MaxSide * MaxSide) : IterSparse(num)
    \/ GenerateMazeReturn

Spec == Init /\ [][Next]_vars

\* ---- generate_temple ---------------------------------------------------
Modes == {"empty", "slalom", "ess", "essthin"}

\* faulty variant of Essthin: the first barrier spans the whole row
EssthinFullRow(size) ==
    LET third == size \div 3
    IN  {third * size + c : c \in 0 .. (size - 1)}
        \cup {2 * third * size + c : c \in 1 .. (size - 1)}

Slalom(size) ==
    UNION {IF i % 10 = 0 THEN {i * size + c : c \in 0 .. (size - 2)}
           ELSE IF i % 5 = 0 THEN {i * size + c : c \in 1 .. (size - 1)}
           ELSE {} : i \in 1 .. (size - 2)}

Ess(size) ==
    LET fifth == size \div 5
    IN  {i * size + c : i \in fifth .. (2 * fifth - 1), c \in 0 .. (fifth * 4 - 1)}
        \cup {i * size + c : i \in (3 * fifth) .. (4 * fifth - 1), c \in fifth .. (size - 1)}

\* faulty variant of Essthin: both barriers leave the last column open
EssthinSameGap(size) ==
    LET third == size \div 3
    IN  {third * size + c : c \in 0 .. (size - 2)}
        \cup {2 * third * size + c : c \in 0 .. (size - 2)}

Essthin(size) ==
    LET third == size \div 3
    IN  {third * size + c : c \in 0 .. (size - 2)}
        \cup {2 * third * size + c : c \in 1 .. (size - 1)}

\* the walled cells of generate_temple(size, mode)
GenerateTempleWalls(size, m) ==
    CASE m = "empty" -> {}
      [] m = "slalom" -> Slalom(size)
      [] m = "ess" -> Ess(size)
      [] m = "essthin" -> Essthin(size)

\* ---- the solving steps: incident, then find_shortest_path ---------------
\* a grid as load_maze returns it: any rectangular boolean array
InitSolve ==
    /\ variant \in Variants
    /\ \E hw \in Shapes :
          /\ height = hw[1]
          /\ width = hw[2]
          /\ maze0 \in SUBSET Nodes(hw[1], hw[2])
    /\ maze = maze0
    /\ incident_matrix = {}
    /\ iter_num = 0
    /\ iter_none = FALSE
    /\ non_solvable = 0
    /\ tried = {}
    /\ path = <<>>
    /\ mode = "none"
    /\ start_node = 0
    /\ end_node = 0
    /\ result = <<>>
    /\ cor = FALSE
    /\ annotated = <<>>
    /\ pc = "grid"

IncidentStep ==
    /\ pc = "grid"
    /\ incident_matrix' = Incident(height, width, maze)
    /\ pc' = "graph"
    /\ UNCHANGED <<variant, height, width, maze0, maze>>
    /\ UNCHANGED carveVars
    /\ UNCHANGED solveVars

FindShortestPathStep(s, e) ==
    /\ pc = "graph"
    /\ s \in Nodes(height, width)
    /\ e \in Nodes(height, width)
    /\ start_node' = s
    /\ end_node' = e
    /\ result' = FindShortestPath(incident_matrix, height * width, s, e)
    /\ pc' = "solved"
    /\ UNCHANGED <<variant, height, width, maze0, maze, incident_matrix, mode,
                   cor, annotated>>
    /\ UNCHANGED carveVars

\* shortest_check of the variant on the graph of the grid
ShortestCheckStep(s, e) ==
    /\ pc = "graph"
    /\ s \in Nodes(height, width)
    /\ e \in Nodes(height, width)
    /\ start_node' = s
    /\ end_node' = e
    /\ cor' = IF variant = "dense"
              THEN ShortestCheckDenseAt(incident_matrix, height * width, s, e) # <<>>
              ELSE ShortestCheckSparseAt(incident_matrix, height * width, s, e)
    /\ pc' = "checked"
    /\ UNCHANGED <<variant, height, width, maze0, maze, incident_matrix, mode,
                   result, annotated>>
    /\ UNCHANGED carveVars

NextSolve ==
    \/ IncidentStep
    \/ \E s \in 0 .. (MaxCells - 1), e \in 0 .. (MaxCells - 1) : ShortestCheckStep(s, e)
    \/ \E s \in 0 .. (MaxCells - 1), e \in 0 .. (MaxCells - 1) : FindShortestPathStep(s, e)

SpecSolve == InitSolve /\ [][NextSolve]_vars

\* ---- templates: generate_temple, then incident and find_shortest_path
\* with the default nodes
InitTemple ==
    /\ variant \in Variants
    /\ height = 0
    /\ width = 0
    /\ maze0 = {}
    /\ maze = {}
    /\ incident_matrix = {}
    /\ iter_num = 0
    /\ iter_none = FALSE
    /\ non_solvable = 0
    /\ tried = {}
    /\ path = <<>>
    /\ mode = "none"
    /\ start_node = 0
    /\ end_node = 0
    /\ result = <<>>
    /\ cor = FALSE
    /\ annotated = <<>>
    /\ pc = "temple"

GenerateTemple(size, m) ==
    /\ pc = "temple"
    /\ height' = size
    /\ width' = size
    /\ mode' = m
    /\ maze0' = GenerateTempleWalls(size, m)
    /\ maze' = GenerateTempleWalls(size, m)
    /\ pc' = "grid"
    /\ UNCHANGED <<variant, incident_matrix, start_node, end_node, result,
                   cor, annotated>>
    /\ UNCHANGED carveVars

FindShortestPathDefault ==
    /\ pc = "graph"
    /\ height <= MaxSolveSize
    /\ start_node' = 0
    /\ end_node' = height * width - 1
    /\ result' = FindShortestPath(incident_matrix, height * width, 0, height * width - 1)
    /\ pc' = "solved"
    /\ UNCHANGED <<variant, height, width, maze0, maze, incident_matrix, mode,
                   cor, annotated>>
    /\ UNCHANGED carveVars

NextTemple ==
    \/ \E size \in 1 .. MaxSize, m \in Modes : GenerateTemple(size, m)
    \/ IncidentStep
    \/ FindShortestPathDefault

SpecTemple == InitTemple /\ [][NextTemple]_vars

\* ---- add_path_to_maze and the two solve methods --------------------------
\* faulty variant of AddPathToMaze: row and column are swapped
AddPathToMazeTransposed(h, w, walls, p) ==
    [n \in Nodes(h, w) |->
        IF \E k \in 1 .. Len(p) : (p[k] % w) * w + (p[k] \div w) = n THEN 2
        ELSE IF n \in walls THEN 1 ELSE 0]

\* maze.astype(int), then maze[i // width, i % width] = 2 for every i in path
AddPathToMaze(h, w, walls, p) ==
    [n \in Nodes(h, w) |->
        IF \E k \in 1 .. Len(p) : (p[k] \div w) * w + (p[k] % w) = n THEN 2
        ELSE IF n \in walls THEN 1 ELSE 0]

InitPipe ==
    /\ variant \in Variants
    /\ height = 0
    /\ width = 0
    /\ maze0 = {}
    /\ maze = {}
    /\ incident_matrix = {}
    /\ iter_num = 0
    /\ iter_none = FALSE
    /\ non_solvable = 0
    /\ tried = {}
    /\ path = <<>>
    /\ mode = "none"
    /\ start_node = 0
    /\ end_node = 0
    /\ result = <<>>
    /\ cor = FALSE
    /\ annotated = <<>>
    /\ pc = "pipe"

\* solve_maze_generate: the template that is handed to generate_maze
SolveGenerateTemple(size, m) ==
    /\ pc = "pipe"
    /\ height' = size
    /\ width' = size
    /\ mode' = m
    /\ maze0' = GenerateTempleWalls(size, m)
    /\ maze' = GenerateTempleWalls(size, m)
    /\ pc' = "call"
    /\ UNCHANGED <<variant, incident_matrix, start_node, end_node, result,
                   cor, annotated>>
    /\ UNCHANGED carveVars

\* solve_maze_generate of the sparse variant called without iter_num
SolveGenerateEnterDefault ==
    /\ variant = "sparse"
    /\ GenerateMazeEnter(0, TRUE)

\* solve_maze_generate: the graph of the grid generate_maze returned
SolveGenerateIncident ==
    /\ pc = "done"
    /\ incident_matrix' = Incident(height, width, maze)
    /\ pc' = "graph"
    /\ UNCHANGED <<variant, height, width, maze0, maze>>
    /\ UNCHANGED carveVars
    /\ UNCHANGED solveVars

\* solve_maze_file: np.loadtxt gives a two-dimensional array only for files
\* with at least two rows and two columns
SolveFileLoad(h, w, walls) ==
    /\ pc = "pipe"
    /\ <<h, w>> \in Shapes
    /\ h >= 2
    /\ w >= 2
    /\ walls \subseteq Nodes(h, w)
    /\ height' = h
    /\ width' = w
    /\ maze0' = walls
    /\ maze' = walls
    /\ pc' = "grid"
    /\ UNCHANGED <<variant, incident_matrix>>
    /\ UNCHANGED carveVars
    /\ UNCHANGED solveVars

\* the last step of both solve methods before plotting
AddPathToMazeStep ==
    /\ pc = "solved"
    /\ annotated' = AddPathToMaze(height, width, maze, result)
    /\ pc' = "marked"
    /\ UNCHANGED <<variant, height, width, maze0, maze, incident_matrix, mode,
                   start_node, end_node, result, cor>>
    /\ UNCHANGED carveVars

NextPipe ==
    \/ \E size \in 1 .. MaxPipeSize, m \in Modes : SolveGenerateTemple(size, m)
    \/ \E n \in 0 .. MaxIter : GenerateMazeEnter(n, FALSE)
    \/ SolveGenerateEnterDefault
    \/ \E num \in 1 .. (MaxPipeSize * MaxPipeSize) : IterDense(num)
    \/ \E num \in 1 .. (MaxPipeSize * MaxPipeSize) : IterSparse(num)
    \/ GenerateMazeReturn
    \/ SolveGenerateIncident
    \/ \E hw \in Shapes : \E walls \in SUBSET Nodes(hw[1], hw[2]) :
          SolveFileLoad(hw[1], hw[2], walls)
    \/ IncidentStep
    \/ FindShortestPathDefault
    \/ AddPathToMazeStep

SpecPipe == InitPipe /\ [][NextPipe]_vars

\* C17: in the solve methods the annotated grid has value 2 exactly on the
\* cells of the path, all of which are open in the grid, and every other cell
\* keeps its value: 1 for a wall, 0 for an open cell.
C17_PathMarkedOnOpenCells ==
    pc = "marked" =>
        LET cells == {result[k] : k \in 1 .. Len(result)}
        IN  /\ DOMAIN annotated = Nodes(height, width)
            /\ cells \cap maze = {}
            /\ \A n \in Nodes(height, width) :
                  annotated[n] = IF n \in cells THEN 2
                                 ELSE IF n \in maze THEN 1 ELSE 0

\* a path was marked on a grid that generate_maze had added walls to
C17_Witness ==
    /\ pc = "marked"
    /\ Len(result) >= 3
    /\ maze # maze0
    /\ \E n \in Nodes(height, width) : annotated[n] = 1

\* ---- properties of generate_maze ---------------------------------------
ExitNode == height * width - 1

Solvable(walls) == GridReachable(height, width, walls, 0, ExitNode)

\* C1: when the exit is reachable from the entrance in the input grid, it is
\* reachable through open cells after every iteration of the carving loop
\* and in the returned grid, for every input grid.
C1_SolvableAfterEveryIteration ==
    (pc # "call" /\ Solvable(maze0)) => Solvable(maze)

\* C2: after every iteration the maintained graph has exactly the edges that
\* incident derives from the current grid: u-v is an edge iff u and v are
\* 4-adjacent and both open.
C2_GraphMatchesGrid ==
    pc \in {"loop", "done"} =>
        /\ incident_matrix = Incident(height, width, maze)
        /\ \A e \in incident_matrix : e[1] \notin maze /\ e[2] \notin maze

\* C5: an iteration that rolls back (the failure counter grows) leaves the
\* whole adjacency exactly as it was before the candidate was disabled.
C5_RollbackRoundTrip ==
    [][non_solvable' = non_solvable + 1 => incident_matrix' = incident_matrix]_vars

\* a candidate was rolled back next to a cell walled by a commit
C5_Witness ==
    /\ non_solvable > 0
    /\ \E num \in tried \ maze : \E v \in maze \ maze0 :
          Adjacent4(height, width, num, v)

\* C6: with max_failures = 0 the call makes no attempt and returns a grid
\* equal to the input grid, for every input grid.
C6_ZeroFailuresReturnsInput ==
    (pc \notin {"call", "loop"} /\ iter_num = 0) =>
        (pc = "done" /\ tried = {} /\ maze = maze0)

\* C7: neither the entrance nor the exit is ever selected as a candidate
\* (walled and disabled in the graph), not even temporarily.
C7_EntranceExitNeverCandidates ==
    tried \cap {0, ExitNode} = {}

\* C8: the call never raises; it returns exactly when the failure counter
\* has reached max_failures or every candidate was tried, and the number of
\* rollbacks never exceeds max_failures.
C8_StopsNormally ==
    variant = "sparse" =>
        /\ pc # "error"
        /\ non_solvable <= iter_num
        /\ Cardinality(tried) <= Cardinality(Numbers(variant, width))
        /\ pc = "done" => (non_solvable = iter_num \/ tried = Numbers(variant, width))

\* ---- properties of incident and find_shortest_path ----------------------
\* Ground truth: the edges of the grid graph.
Edges(h, w, walls) ==
    {e \in Nodes(h, w) \X Nodes(h, w) :
        /\ e[1] \notin walls
        /\ e[2] \notin walls
        /\ Adjacent4(h, w, e[1], e[2])}

\* Ground truth: number of edges on a shortest walk from the frontier to e
\* in the edge set E, -1 when there is none (d is the frontier's distance).
RECURSIVE Distance(_, _, _, _, _)
Distance(E, frontier, seen, e, d) ==
    IF e \in frontier THEN d
    ELSE IF frontier = {} THEN -1
    ELSE LET next == {x[2] : x \in {y \in E : y[1] \in frontier}} \ seen
         IN  Distance(E, next, seen \cup next, e, d + 1)

GridDistance == Distance(Edges(height, width, maze), {start_node}, {start_node}, end_node, 0)

\* C3: a non-empty result of find_shortest_path begins with start, ends with
\* end, steps along edges of the graph and has as many edges as the distance
\* from start to end, so no strictly shorter path exists.
C3_ShortestPath ==
    (pc = "solved" /\ result # <<>>) =>
        /\ result[1] = start_node
        /\ result[Len(result)] = end_node
        /\ \A k \in 1 .. (Len(result) - 1) :
              <<result[k], result[k + 1]>> \in Edges(height, width, maze)
        /\ Len(result) - 1 = GridDistance

\* a path of at least four edges was returned in a grid that has walls
C3_Witness ==
    /\ pc = "solved"
    /\ Len(result) >= 5
    /\ maze # {}

\* C4: the result is empty exactly when end is not reachable from start
\* (start = end counts as reachable).
C4_EmptyIffUnreachable ==
    pc = "solved" => ((result = <<>>) <=> (GridDistance = -1))

\* two open cells with no path between them gave the empty result
C4_Witness ==
    /\ pc = "solved"
    /\ result = <<>>
    /\ start_node \notin maze
    /\ end_node \notin maze
    /\ start_node # end_node

\* C9: incident yields exactly the symmetric 4-adjacency of the open cells.
C9_IncidentIsGridAdjacency ==
    pc \in {"graph", "solved"} =>
        /\ incident_matrix = Edges(height, width, maze)
        /\ \A e \in incident_matrix : <<e[2], e[1]>> \in incident_matrix

\* the graph of a non-square grid with walls and with edges was built
C9_Witness ==
    /\ pc = "graph"
    /\ height # width
    /\ width > 1
    /\ height > 1
    /\ maze # {}
    /\ incident_matrix # {}

\* ---- properties of generate_temple --------------------------------------
TempleSolvable ==
    /\ 0 \notin maze
    /\ (height * width - 1) \notin maze
    /\ GridReachable(height, width, maze, 0, height * width - 1)

\* C10 as stated: every template of every size >= 1 has entrance and exit
\* open and joined by a path of open cells.
C10_EveryTemplateSolvable ==
    pc = "grid" => TempleSolvable

\* C10 amended: this holds for the modes empty, slalom and ess at every
\* size, and for essthin at size 1 and at every size >= 6.
C10_TemplateSolvableAmended ==
    (pc = "grid" /\ (mode # "essthin" \/ height = 1 \/ height >= 6)) => TempleSolvable

\* an essthin template with both barriers inside the grid was generated
C10_Witness ==
    /\ pc = "grid"
    /\ mode = "essthin"
    /\ height >= 6
    /\ Cardinality(maze) = 2 * (height - 1)

\* ---- further properties of generate_maze ---------------------------------
\* C11: started on a grid whose exit is not reachable from the entrance, the
\* call fails with an error before any candidate is attempted and returns
\* no grid.
C11_FailsFastWhenDisconnected ==
    (pc # "call" /\ ~Solvable(maze0)) => (pc = "error" /\ tried = {})

\* C16: called without max_failures, the failure bound is the number of rows
\* of the grid.
C16_DefaultIsSideLength ==
    (pc # "call" /\ iter_none) => iter_num = height

\* C18: every cell that is a wall in the input grid is still a wall after
\* every iteration and in the returned grid.
C18_WallsOnlyGrow ==
    pc # "call" => maze0 \subseteq maze

\* the open cells of the current grid
Open == Nodes(height, width) \ maze

\* Ground truth: the open cells form one simple path from entrance to exit
OpenCellsAreOnePath ==
    /\ {0, ExitNode} \subseteq Open
    /\ Open \subseteq GridClosure(height, width, maze, {0})
    /\ \A c \in Open :
          Cardinality({d \in Open : Adjacent4(height, width, c, d)})
              <= (IF c \in {0, ExitNode} THEN 1 ELSE 2)

\* C19: started on a solvable grid and ended because every candidate was
\* tried, the returned grid is maximally walled: every open cell lies on
\* every entrance-to-exit path and the open cells form exactly one simple
\* path.
C19_MaximallyWalled ==
    (pc = "done" /\ Solvable(maze0) /\ non_solvable < iter_num) =>
        /\ \A c \in Open \ {0, ExitNode} : ~Solvable(maze \cup {c})
        /\ OpenCellsAreOnePath

\* C20: in the dense variant, on a solvable input grid, the remembered path
\* is at the start of every iteration an entrance-to-exit path of the current
\* grid through open cells only, and the grid stays solvable.
C20_RememberedPathValid ==
    (variant = "dense" /\ pc \in {"loop", "done"} /\ Solvable(maze0)) =>
        /\ Len(path) >= 1
        /\ path[1] = 0
        /\ path[Len(path)] = ExitNode
        /\ \A k \in 1 .. Len(path) : path[k] \in Open
        /\ \A k \in 1 .. (Len(path) - 1) :
              <<path[k], path[k + 1]>> \in Edges(height, width, maze)
        /\ Solvable(maze)

\* a candidate off the remembered path was committed without a check after
\* the path had been replaced at least once
C20_Witness ==
    /\ variant = "dense"
    /\ pc = "loop"
    /\ Solvable(maze0)
    /\ path # ShortestCheckDense(Incident(height, width, maze0), height * width)
    /\ \E c \in maze \ maze0 : \A k \in 1 .. Len(path) : ~Adjacent4(height, width, c, path[k])

\* ---- properties of shortest_check ----------------------------------------
\* C12: on the graph of a grid and for every pair of nodes, the matrix
\* product check of the sparse variant answers true exactly when the queue
\* based check of the dense variant does.
C12_ChecksAgree ==
    pc = "checked" =>
        (cor <=> IF variant = "dense"
                 THEN ShortestCheckSparseAt(incident_matrix, height * width,
                                            start_node, end_node)
                 ELSE ShortestCheckDenseAt(incident_matrix, height * width,
                                           start_node, end_node) # <<>>)

\* ---- further properties of find_shortest_path and generate_temple --------
\* C13: on the empty template of any size >= 2 the path from node 0 to the
\* last node has exactly (height-1)+(width-1) edges.
C13_EmptyTemplateManhattan ==
    (pc = "solved" /\ mode = "empty" /\ height >= 2) =>
        Len(result) - 1 = (height - 1) + (width - 1)

\* the empty template of a size >= 3 was searched
C13_Witness ==
    /\ pc = "solved"
    /\ mode = "empty"
    /\ height >= 3
    /\ result # <<>>

\* Ground truth: among the shortest paths from u to e in the edge set E, the
\* one that takes the neighbour with the smallest node id at every step
\* (u is at distance d >= 0 from e).
RECURSIVE SmallestIdPath(_, _, _)
SmallestIdPath(E, u, e) ==
    IF u = e THEN <<u>>
    ELSE LET d == Distance(E, {u}, {u}, e, 0)
             closer == {x[2] : x \in {y \in E : y[1] = u /\ Distance(E, {y[2]}, {y[2]}, e, 0) = d - 1}}
             v == CHOOSE x \in closer : \A y \in closer : x <= y
         IN  <<u>> \o SmallestIdPath(E, v, e)

\* C14: the result is determined by (graph, start, end) with neighbours
\* taken in increasing node id, the same in both variants; the 3x3 empty
\* grid has 12 undirected edges and its path from 0 to 8 is [0,1,2,5,8].
C14_FixedOrderPath ==
    (pc = "solved" /\ mode = "none") =>
        /\ result # <<>> =>
              result = SmallestIdPath(Edges(height, width, maze), start_node, end_node)
        /\ (height = 3 /\ width = 3 /\ maze = {}) =>
              /\ Cardinality(incident_matrix) = 2 * 12
              /\ (start_node = 0 /\ end_node = 8) => result = <<0, 1, 2, 5, 8>>

\* the 3x3 empty grid was searched from 0 to 8
C14_Witness ==
    /\ pc = "solved"
    /\ height = 3
    /\ width = 3
    /\ maze = {}
    /\ start_node = 0
    /\ end_node = 8
    /\ Len(result) = 5

\* C15: essthin walls exactly row size//3 in columns 0..size-2 and row
\* 2*(size//3) in columns 1..size-1; at size 9 these are row 3, columns 0-7,
\* and row 6, columns 1-8, each row keeping exactly one open column.
C15_EssthinWalls ==
    (pc = "grid" /\ mode = "essthin") =>
        /\ \A n \in Nodes(height, width) :
              n \in maze <=>
                 \/ n \div width = height \div 3 /\ n % width <= width - 2
                 \/ n \div width = 2 * (height \div 3) /\ n % width >= 1
        /\ height = 9 =>
              /\ maze = (27 .. 34) \cup (55 .. 62)
              /\ \A r \in {3, 6} :
                    Cardinality({c \in 0 .. 8 : (r * 9 + c) \notin maze}) = 1

\* the essthin template of size 9 was generated
C15_Witness ==
    /\ pc = "grid"
    /\ mode = "essthin"
    /\ height = 9
    /\ maze # {}

====
